---- MODULE Spec2Model ----
(***************************************************************************)
(* Model of the GraphQL chat endpoint of src/app/api/graphql/route.ts:     *)
(* the settings resolver readEnvValue, the completion relay                *)
(* fetchDeepseekCompletion and the sendMessage resolver that wraps the     *)
(* relay's reply in a ChatMessage.                                         *)
(*                                                                         *)
(* JavaScript values are tagged records ([t |-> "undef"], [t |-> "str",    *)
(* s |-> <<...>>], ...).  A string is a sequence of characters; the fixed  *)
(* Chinese literals of the source are written as one ASCII token each.     *)
(* An async function is cut at its awaits: one action per settlement of    *)
(* the awaited promise, carrying the synchronous continuation up to the    *)
(* next await or the return (JavaScript runs it to completion).            *)
(***************************************************************************)
EXTENDS Integers, Sequences, FiniteSets, TLC

\* ------------------------------------------------------------------ bounds
\* longest text the upstream sends as an error body or as message content
MaxLen == 2
\* number of identifiers crypto.randomUUID can draw from
NumUUID == 2
\* number of mutations the chat page sends
MaxSent == 2

\* the sendMessage invocations the host serves: a pair, so that two can overlap
Inv == {1, 2}

\* ------------------------------------------------------- program constants
DefaultTimeoutMs == 25000
MsPerSecond == 1000
\* response.ok is status in 200..299
OkLow == 200
OkHigh == 299

\* ------------------------------------------------------------- JS values
Undefined == [t |-> "undef"]
Null == [t |-> "null"]
Str(s) == [t |-> "str", s |-> s]
Num(n) == [t |-> "num", n |-> n]
Obj(f) == [t |-> "obj", f |-> f]
Arr(items) == [t |-> "arr", items |-> items]
\* an Error object: instanceof Error holds, with a name and a message
Err(name, message) == [t |-> "error", name |-> name, message |-> message]

IsStr(v) == v.t = "str"
IsNullish(v) == v.t \in {"undef", "null"}

\* --------------------------------------------------------------- strings
Whitespace == {" ", "\t", "\n"}

RECURSIVE TrimStart(_)
TrimStart(s) ==
    IF s # <<>> /\ Head(s) \in Whitespace THEN TrimStart(Tail(s)) ELSE s

RECURSIVE TrimEnd(_)
TrimEnd(s) ==
    IF s # <<>> /\ s[Len(s)] \in Whitespace
    THEN TrimEnd(SubSeq(s, 1, Len(s) - 1))
    ELSE s

\* String.prototype.trim
Trim(s) == TrimEnd(TrimStart(s))

\* s.includes(sub)
Contains(s, sub) ==
    \E k \in 0..(Len(s) - Len(sub)) : SubSeq(s, k + 1, k + Len(sub)) = sub

DigitChar == <<"0", "1", "2", "3", "4", "5", "6", "7", "8", "9">>

\* the decimal text a template literal gives a non-negative integer
RECURSIVE Digits(_)
Digits(n) ==
    IF n < 10 THEN <<DigitChar[n + 1]>>
    ELSE Digits(n \div 10) \o <<DigitChar[(n % 10) + 1]>>

\* ------------------------------------------------------------- numbers
\* A JS number is NaN, +-Infinity, or a finite decimal num/den (den a power
\* of ten, so that "0.5" is 5/10).
NaN == [k |-> "nan"]
Infinite(sign) == [k |-> "inf", sign |-> sign]
Finite(num, den) == [k |-> "fin", num |-> num, den |-> den]

IsDigit(c) == \E d \in 1..10 : DigitChar[d] = c
DigitVal(c) == (CHOOSE d \in 1..10 : DigitChar[d] = c) - 1

RECURSIVE DigitsVal(_)
DigitsVal(s) ==
    IF s = <<>> THEN 0
    ELSE 10 * DigitsVal(SubSeq(s, 1, Len(s) - 1)) + DigitVal(s[Len(s)])

RECURSIVE Pow10(_)
Pow10(n) == IF n = 0 THEN 1 ELSE 10 * Pow10(n - 1)

AllDigits(s) == \A j \in 1..Len(s) : IsDigit(s[j])

InfinityText == <<"I", "n", "f", "i", "n", "i", "t", "y">>

\* an unsigned StrDecimalLiteral: digits, digits.digits, digits. or .digits
UnsignedNumber(s) ==
    IF s = InfinityText THEN Infinite(1)
    ELSE IF \E j \in 1..Len(s) : s[j] = "."
    THEN LET dot == CHOOSE j \in 1..Len(s) : s[j] = "."
             ip == SubSeq(s, 1, dot - 1)
             fp == SubSeq(s, dot + 1, Len(s))
         IN IF AllDigits(ip) /\ AllDigits(fp) /\ Len(ip) + Len(fp) > 0
            THEN Finite(DigitsVal(ip) * Pow10(Len(fp)) + DigitsVal(fp),
                        Pow10(Len(fp)))
            ELSE NaN
    ELSE IF s # <<>> /\ AllDigits(s) THEN Finite(DigitsVal(s), 1)
    ELSE NaN

Negate(x) ==
    CASE x.k = "nan" -> x
      [] x.k = "inf" -> Infinite(0 - x.sign)
      [] x.k = "fin" -> Finite(0 - x.num, x.den)

\* Number(string): surrounding white space is dropped, the empty string is 0,
\* an optional sign precedes a decimal literal, anything else is NaN.  (Hex,
\* exponent and separator forms are outside the settings the model draws.)
ToNumber(s) ==
    LET t == Trim(s)
    IN IF t = <<>> THEN Finite(0, 1)
       ELSE IF Head(t) = "-" THEN Negate(UnsignedNumber(Tail(t)))
       ELSE IF Head(t) = "+" THEN UnsignedNumber(Tail(t))
       ELSE UnsignedNumber(t)

\* Number.isFinite
IsFinite(x) == x.k = "fin"
\* x > 0 (false for NaN)
IsPositive(x) == (x.k = "fin" /\ x.num > 0) \/ (x.k = "inf" /\ x.sign > 0)

\* Math.floor(x / d) for a finite x >= 0 and an integer d > 0
FloorDiv(x, d) == x.num \div (x.den * d)

\* --------------------------------------------------- settings and inputs
Keys == {"DEEPSEEK_API_KEY", "DEEPSEEK_MODEL", "DEEPSEEK_TIMEOUT_MS",
         "DEEPSEEK_BASE_URL"}

\* the values a scope may hold under each key
KeyVals(key) ==
    CASE key = "DEEPSEEK_API_KEY" ->
            {Undefined, Str(<<>>), Str(<<" ">>), Str(<<"k">>), Str(<<" ", "k">>)}
      [] key = "DEEPSEEK_MODEL" ->
            {Undefined, Str(<<" ">>), Str(<<"m">>)}
      [] key = "DEEPSEEK_TIMEOUT_MS" ->
            {Undefined, Str(<<>>), Str(<<"x">>), Str(<<"0">>), Str(<<"-", "5">>),
             Str(<<"1", "5", "0", "0">>), Str(<<" ", "2", "0", "0", "0">>),
             Str(<<"0", ".", "5">>), Str(InfinityText)}
      [] key = "DEEPSEEK_BASE_URL" ->
            {Undefined, Str(<<" ">>), Str(<<"h">>), Str(<<"h", "/">>),
             Str(<<"h", "/", "/">>)}

EmptyScope == [k \in Keys |-> Undefined]

\* a scope (context.env, or process.env) with at most one key set; Undefined is
\* no scope at all (no context.env; no process global)
Scopes ==
    {Undefined} \cup
    {Obj([EmptyScope EXCEPT ![k] = v]) : <<k, v>> \in
        UNION {{<<key, val>> : val \in KeyVals(key)} : key \in Keys}}

UserMessages == {<<"h", "i">>, <<"y", "o">>}

Chars == {" ", "a"}

RECURSIVE TextsOfLen(_)
TextsOfLen(n) ==
    IF n = 0 THEN {<<>>}
    ELSE {Append(s, c) : s \in TextsOfLen(n - 1), c \in Chars}

\* the texts the upstream sends: all strings over Chars up to MaxLen
Texts == UNION {TextsOfLen(n) : n \in 0..MaxLen}

Statuses == {200, 299, 300, 500}

UUIDs == {<<"uuid", Digits(n)[1]>> : n \in 1..NumUUID}

\* ------------------------------------------------------------ readEnvValue
\* JS truthiness of a string-or-undefined value
Truthy(v) == v.t = "str" /\ v.s # <<>>

\* scope?.[key]
Lookup(scope, key) == IF IsNullish(scope) THEN Undefined ELSE scope.f[key]

NonBlank(v) == Truthy(v) /\ Trim(v.s) # <<>>

readEnvValueNoPrecedence(key, env, process) ==
    IF NonBlank(Lookup(process, key)) THEN Lookup(process, key)
    ELSE IF NonBlank(Lookup(env, key)) THEN Lookup(env, key)
    ELSE Undefined

\* the process-wide value returned without the trim test
readEnvValueBlankProcess(key, env, process) ==
    IF NonBlank(Lookup(env, key)) THEN Lookup(env, key)
    ELSE IF ~IsNullish(process) /\ Truthy(Lookup(process, key))
         THEN Lookup(process, key)
    ELSE Undefined

\* readEnvValue(key, env), with the process global as a parameter
readEnvValue(key, env, process) ==
    LET fromContext == Lookup(env, key)
        fromProcess == Lookup(process, key)
    IN IF Truthy(fromContext) /\ Trim(fromContext.s) # <<>> THEN fromContext
       ELSE IF ~IsNullish(process) /\ Truthy(fromProcess)
                 /\ Trim(fromProcess.s) # <<>>
            THEN fromProcess
       ELSE Undefined

\* a ?? b
Coalesce(a, b) == IF IsNullish(a) THEN b ELSE a

\* ------------------------------------------------- the relay's fixed texts
\* (each Chinese literal of the source is one token, rendered in English)
MissingKeyText ==
    <<"[zh: the server lacks DEEPSEEK_API_KEY; configure it in the environment variables or Workers Secrets and try again]">>
NoContentText == <<"[zh: DeepSeek returned no content, try again later]">>
TimeoutPrefix == <<"[zh: the connection to DeepSeek timed out after] ">>
TimeoutSuffix == <<" [zh: seconds, please try once more]">>
ErrorPrefix == <<"[zh: sorry, calling DeepSeek failed:] ">>
UnknownReasonText == <<"[zh: unknown reason]">>
UnknownBody == <<"u", "n", "k", "n", "o", "w", "n">>
DefaultBaseUrl == <<"https://api.deepseek.com">>
DefaultModel == <<"deepseek-chat">>
CompletionsPath == <<"/v1/chat/completions">>

\* `${v}` of a string-or-undefined value
ToText(v) == IF IsStr(v) THEN v.s ELSE <<"undefined">>

\* how a function body ends: it returns a value or throws one
Return(v) == [kind |-> "return", val |-> v]
Throw(e) == [kind |-> "throw", err |-> e]
NoCompletion == [kind |-> "none"]
NoError == [t |-> "none"]

\* ------------------------------------------------ fetchDeepseekCompletion
\* apiKey === "": an absent key passes the check
KeyMissingEmptyOnly(apiKey) == apiKey = Str(<<>>)

\* !apiKey
KeyMissing(apiKey) == ~Truthy(apiKey)

\* the parsed setting taken whenever it is finite: no test of its sign
ResolveTimeoutMsAnySign(env, process) ==
    LET timeoutSetting == readEnvValue("DEEPSEEK_TIMEOUT_MS", env, process)
        timeoutParsed ==
            IF Truthy(timeoutSetting) THEN ToNumber(timeoutSetting.s) ELSE NaN
    IN IF IsFinite(timeoutParsed) THEN timeoutParsed
       ELSE Finite(DefaultTimeoutMs, 1)

\* timeoutMs of lines 108-111
ResolveTimeoutMs(env, process) ==
    LET timeoutSetting == readEnvValue("DEEPSEEK_TIMEOUT_MS", env, process)
        timeoutParsed ==
            IF Truthy(timeoutSetting) THEN ToNumber(timeoutSetting.s) ELSE NaN
    IN IF IsFinite(timeoutParsed) /\ IsPositive(timeoutParsed)
       THEN timeoutParsed
       ELSE Finite(DefaultTimeoutMs, 1)

\* baseUrl.replace(/\/$/, "")
StripTrailingSlash(s) ==
    IF s # <<>> /\ s[Len(s)] = "/" THEN SubSeq(s, 1, Len(s) - 1) ELSE s

\* endpoint of lines 113-115
Endpoint(env, process) ==
    LET baseUrl == Coalesce(readEnvValue("DEEPSEEK_BASE_URL", env, process),
                            Str(DefaultBaseUrl))
    IN StripTrailingSlash(baseUrl.s) \o CompletionsPath

\* the request handed to fetch, lines 121-144
UpstreamRequest(apiKey, userMessage, env, process) ==
    [endpoint |-> Endpoint(env, process),
     authorization |-> <<"Bearer ">> \o ToText(apiKey),
     model |-> Coalesce(readEnvValue("DEEPSEEK_MODEL", env, process),
                        Str(DefaultModel)).s,
     messages |-> <<[role |-> "system", content |-> <<"[zh: persona]">>],
                    [role |-> "user", content |-> userMessage]>>]

\* response.ok
ResponseOk(status) == OkLow <= status /\ status <= OkHigh

\* the status left out of the message
HttpErrorMessageNoStatus(status, errorBody) ==
    <<"DeepSeek request failed: ">>
        \o (IF errorBody # <<>> THEN errorBody ELSE <<"u", "n", "k", "n", "o", "w", "n">>)

\* the message of the Error thrown at lines 148-150
HttpErrorMessage(status, errorBody) ==
    <<"DeepSeek request failed (">> \o Digits(status) \o <<"): ">>
        \o (IF errorBody # <<>> THEN errorBody ELSE UnknownBody)

\* o.name of a parsed JSON value (undefined when o has no such property)
Get(o, name) ==
    IF o.t = "obj" /\ name \in DOMAIN o.f THEN o.f[name] ELSE Undefined

\* a[0]
First(a) ==
    IF a.t = "arr" /\ Len(a.items) > 0 THEN a.items[1] ELSE Undefined

\* data.choices[0].message.content.trim() ?? fallback: no optional chaining
ExtractContentUnchained(data) ==
    LET choices == Get(data, "choices")
        choice == First(choices)
        message == Get(choice, "message")
        content == Get(message, "content")
    IN IF IsNullish(data) \/ IsNullish(choices) \/ IsNullish(choice)
          \/ IsNullish(message) \/ ~IsStr(content)
       THEN Throw(Err("TypeError", <<"Cannot read properties of undefined">>))
       ELSE Return(Trim(content.s))

\* data.choices?.[0]?.message?.content ?? fallback: the trim left out
ExtractContentNoTrim(data) ==
    IF IsNullish(data)
    THEN Throw(Err("TypeError", <<"Cannot read properties of null">>))
    ELSE LET choices == Get(data, "choices")
             choice == IF IsNullish(choices) THEN Undefined ELSE First(choices)
             message == IF IsNullish(choice) THEN Undefined
                        ELSE Get(choice, "message")
             content == IF IsNullish(message) THEN Undefined
                        ELSE Get(message, "content")
         IN IF IsNullish(content) THEN Return(<<"[zh: DeepSeek returned no content, try again later]">>)
            ELSE IF IsStr(content) THEN Return(content.s)
            ELSE Throw(Err("TypeError", <<"content.trim is not a function">>))

\* lines 154-158: data.choices?.[0]?.message?.content?.trim() ?? fallback
ExtractContent(data) ==
    IF IsNullish(data)
    THEN Throw(Err("TypeError", <<"Cannot read properties of null">>))
    ELSE LET choices == Get(data, "choices")
             choice == IF IsNullish(choices) THEN Undefined ELSE First(choices)
             message == IF IsNullish(choice) THEN Undefined
                        ELSE Get(choice, "message")
             content == IF IsNullish(message) THEN Undefined
                        ELSE Get(message, "content")
         IN IF IsNullish(content) THEN Return(NoContentText)
            ELSE IF IsStr(content) THEN Return(Trim(content.s))
            ELSE Throw(Err("TypeError", <<"content.trim is not a function">>))

\* the duration printed in milliseconds
TimeoutTextMs(timeoutMs) ==
    TimeoutPrefix \o Digits(FloorDiv(timeoutMs, 1)) \o TimeoutSuffix

\* the timeout diagnostic of lines 162-164
TimeoutText(timeoutMs) ==
    TimeoutPrefix \o Digits(FloorDiv(timeoutMs, MsPerSecond)) \o TimeoutSuffix

\* every Error object taken for the abort: the name is not looked at
CatchBlockAnyError(error, timeoutMs) ==
    IF error.t = "error"
    THEN Return(TimeoutText(timeoutMs))
    ELSE Return(ErrorPrefix \o UnknownReasonText)

\* the abort not told apart: every Error object gives the error-message text
CatchBlockNoAbortCheck(error, timeoutMs) ==
    Return(ErrorPrefix \o
           (IF error.t = "error" THEN error.message ELSE UnknownReasonText))

\* the catch block, lines 159-168
CatchBlock(error, timeoutMs) ==
    IF error.t = "error" /\ error.name = "AbortError"
    THEN Return(TimeoutText(timeoutMs))
    ELSE Return(ErrorPrefix \o
                (IF error.t = "error" THEN error.message ELSE UnknownReasonText))

\* a catch that handles Error objects only: any other thrown value propagates
TryCatchErrorsOnly(body, timeoutMs) ==
    IF body.kind = "throw" /\ body.err.t = "error"
    THEN IF body.err.name = "AbortError"
         THEN Return(TimeoutPrefix \o Digits(FloorDiv(timeoutMs, MsPerSecond))
                     \o TimeoutSuffix)
         ELSE Return(ErrorPrefix \o body.err.message)
    ELSE body

\* try { ... } catch: what the function ends with, given how the try body ended
TryCatch(body, timeoutMs) ==
    IF body.kind = "throw" THEN CatchBlock(body.err, timeoutMs) ELSE body

\* no finally block: the handle is left as it is
ClearTimeoutLeak(t) == t

\* clearTimeout(timeout) of the finally block
ClearTimeout(t) == "cleared"

\* the rejection of a fetch or body read whose signal is aborted
AbortError == Err("AbortError", <<"This operation was aborted">>)

\* ------------------------------------------------------------ sendMessage
\* lines 63-67
AssistantMessage(id, reply) ==
    [id |-> id, role |-> "assistant", content |-> reply]
NoMessage == [role |-> "none"]

\* --------------------------------------------------- what the upstream does
\* message.content of a choice
Contents == {Undefined, Null, Num(7)} \cup {Str(s) : s \in Texts}

Message(content) == Obj([content |-> content])
Choice(message) == Obj([message |-> message])
Data(choices) == Obj([choices |-> choices])

\* the values response.json() resolves with
Payloads ==
    {Null, Num(7)}
    \cup {Data(c) : c \in {Undefined, Null, Arr(<<>>), Arr(<<Null>>)}}
    \cup {Data(Arr(<<Choice(m)>>)) : m \in {Undefined, Null}}
    \cup {Data(Arr(<<Choice(Message(c))>>)) : c \in Contents}
    \cup {Data(Arr(<<Choice(Message(c)), Choice(Message(Str(<<"z">>)))>>)) :
            c \in {Undefined, Str(<<"a">>)}}

\* what fetch or a body read rejects with when the transport fails; the last
\* is a thrown value that is no Error object
TransportErrors ==
    {Err("TypeError", <<"fetch failed">>), Err("TypeError", <<>>),
     Str(<<"reset">>)}

\* what response.json() rejects with on a body that is not JSON
ParseError == Err("SyntaxError", <<"Unexpected token">>)

\* ------------------------------------------------------------------ state
VARIABLES
    procEnv,      \* process.env of the host (Undefined: no process global)
    pending,      \* invocations the RPC layer has yet to make
    env,          \* env[i]: context.env of invocation i
    userMessage,  \* userMessage[i]: args.input.message
    pc,           \* pc[i]: the await invocation i is suspended at
    apiKey,       \* apiKey[i]
    timeoutMs,    \* timeoutMs[i]
    request,      \* request[i]: the request given to fetch
    calls,        \* calls[i]: fetch calls issued by invocation i
    timer,        \* timer[i]: state of the setTimeout handle
    aborted,      \* aborted[i]: controller.signal.aborted
    response,     \* response[i]: the Response fetch resolved with
    errorBody,    \* errorBody[i]
    data,         \* data[i]
    error,        \* error[i]: the value the catch block caught
    outcome,      \* outcome[i]: how fetchDeepseekCompletion ended
    message,      \* message[i]: the ChatMessage sendMessage returned
    issued        \* the identifiers crypto.randomUUID has produced

\* the chat page, src/app/page.tsx
VARIABLES
    messages,     \* the messages state of ChatInterface, as last rendered
    input,        \* the input state, as last rendered
    loading,      \* loading of useMutation, as last rendered
    queued,       \* state updates made by promise callbacks, not yet rendered
    inFlight,     \* sendMessage mutations sent and not yet settled
    sent,         \* the message of every mutation sent, in order
    minted,       \* how many identifiers the page's crypto.randomUUID made
    lastStep      \* what the page did last

server == <<procEnv, pending, env, userMessage, pc, apiKey, timeoutMs, request,
            calls, timer, aborted, response, errorBody, data, error, outcome,
            message, issued>>

view == <<messages, input, loading, queued, inFlight, sent, minted, lastStep>>

vars == <<server, view>>

inputs == <<procEnv, env, userMessage>>
locals == <<apiKey, timeoutMs, request, response, errorBody, data>>

Awaiting == {"fetching", "readingText", "readingJson"}

InitLocals ==
    /\ pc = [i \in Inv |-> "idle"]
    /\ apiKey = [i \in Inv |-> Undefined]
    /\ timeoutMs = [i \in Inv |-> NaN]
    /\ request = [i \in Inv |-> Undefined]
    /\ calls = [i \in Inv |-> 0]
    /\ timer = [i \in Inv |-> "none"]
    /\ aborted = [i \in Inv |-> FALSE]
    /\ response = [i \in Inv |-> Undefined]
    /\ errorBody = [i \in Inv |-> Undefined]
    /\ data = [i \in Inv |-> Undefined]
    /\ error = [i \in Inv |-> NoError]
    /\ outcome = [i \in Inv |-> NoCompletion]
    /\ message = [i \in Inv |-> NoMessage]
    /\ issued = {}

WelcomeText == <<"[zh: hello, I am your AI partner; tell me what you took from the DeFi or Cloudflare lessons]">>
WelcomeMessage ==
    [id |-> <<"welcome">>, role |-> "assistant", content |-> WelcomeText]

\* the page as first rendered: lines 48-57
InitView ==
    /\ messages = <<WelcomeMessage>>
    /\ input = <<>>
    /\ loading = FALSE
    /\ queued = <<>>
    /\ inFlight = 0
    /\ sent = <<>>
    /\ minted = 0
    /\ lastStep = "mount"

\* one request, with every setting of both scopes and every user message
Init ==
    /\ procEnv \in Scopes
    /\ pending = {1}
    /\ env \in {[i \in Inv |-> IF i \in pending THEN e ELSE Undefined] :
                    e \in Scopes}
    /\ userMessage \in {[i \in Inv |-> IF i \in pending THEN m ELSE <<>>] :
                            m \in UserMessages}
    /\ InitLocals
    /\ InitView

\* the settings of two overlapping requests: a process environment with or
\* without the key, request scopes with or without one
PairProcEnvs == {Undefined, Obj([EmptyScope EXCEPT !["DEEPSEEK_API_KEY"] = Str(<<"k">>)])}
PairEnvs == {Undefined, Obj([EmptyScope EXCEPT !["DEEPSEEK_API_KEY"] = Str(<<" ", "k">>)])}

\* two requests, which the host may serve one after the other or overlapping
InitPair ==
    /\ procEnv \in PairProcEnvs
    /\ pending = Inv
    /\ env \in [Inv -> PairEnvs]
    /\ userMessage \in {[i \in Inv |-> IF i = 1 THEN <<"h", "i">> ELSE m] :
                            m \in UserMessages}
    /\ InitLocals
    /\ InitView

\* ---------------------------------------------------------------- actions
\* an id that is one fixed string instead of a generated one
WrapFixedId(i, result) ==
    IF result.kind = "return"
    THEN /\ message' = [message EXCEPT ![i] =
                AssistantMessage(<<"uuid", "1">>, result.val)]
         /\ issued' = issued \cup {<<"uuid", "1">>}
    ELSE UNCHANGED <<message, issued>>

\* sendMessage's continuation after the relay ended with result, lines 63-71:
\* a returned reply is wrapped with a fresh identifier, a thrown value
\* propagates
Wrap(i, result) ==
    IF result.kind = "return"
    THEN \E id \in UUIDs \ issued :
            /\ message' = [message EXCEPT ![i] = AssistantMessage(id, result.val)]
            /\ issued' = issued \cup {id}
    ELSE UNCHANGED <<message, issued>>

\* the try body ended with body (a return or a throw) while the timer handle
\* was in state t: catch, finally, return, and sendMessage's continuation
Finish(i, body, t) ==
    LET result == TryCatch(body, timeoutMs[i])
    IN /\ pc' = [pc EXCEPT ![i] = "done"]
       /\ error' = [error EXCEPT ![i] =
                        IF body.kind = "throw" THEN body.err ELSE NoError]
       /\ timer' = [timer EXCEPT ![i] = ClearTimeout(t)]
       /\ outcome' = [outcome EXCEPT ![i] = result]
       /\ Wrap(i, result)

\* sendMessage is called: lines 58 and 102-144, up to the await of fetch
SendMessage(i) ==
    /\ i \in pending
    /\ pc[i] = "idle"
    /\ pending' = pending \ {i}
    /\ LET key == readEnvValue("DEEPSEEK_API_KEY", env[i], procEnv)
       IN /\ apiKey' = [apiKey EXCEPT ![i] = key]
          /\ IF KeyMissing(key)
             THEN /\ pc' = [pc EXCEPT ![i] = "done"]
                  /\ outcome' = [outcome EXCEPT ![i] = Return(MissingKeyText)]
                  /\ Wrap(i, Return(MissingKeyText))
                  /\ UNCHANGED <<timeoutMs, request, calls, timer>>
             ELSE /\ timeoutMs' = [timeoutMs EXCEPT ![i] =
                                      ResolveTimeoutMs(env[i], procEnv)]
                  /\ timer' = [timer EXCEPT ![i] = "armed"]
                  /\ request' = [request EXCEPT ![i] =
                        UpstreamRequest(key, userMessage[i], env[i], procEnv)]
                  /\ calls' = [calls EXCEPT ![i] = @ + 1]
                  /\ pc' = [pc EXCEPT ![i] = "fetching"]
                  /\ UNCHANGED <<outcome, message, issued>>
    /\ UNCHANGED <<view, inputs, aborted, response, errorBody, data, error>>

\* fetch resolves with a response of the given status: lines 146-147 or 153
FetchResolve(i, status) ==
    /\ pc[i] = "fetching"
    /\ response' = [response EXCEPT ![i] = [t |-> "response", status |-> status]]
    /\ pc' = [pc EXCEPT ![i] =
                IF ResponseOk(status) THEN "readingJson" ELSE "readingText"]
    /\ UNCHANGED <<view, inputs, pending, apiKey, timeoutMs, request, calls, timer,
                   aborted, errorBody, data, error, outcome, message, issued>>

\* a transport failure answered by one more fetch
FetchRejectRetry(i, e) ==
    /\ pc[i] = "fetching"
    /\ IF calls[i] < 2
       THEN /\ calls' = [calls EXCEPT ![i] = @ + 1]
            /\ UNCHANGED <<pc, error, timer, outcome, message, issued>>
       ELSE /\ pc' = [pc EXCEPT ![i] = "done"]
            /\ error' = [error EXCEPT ![i] = e]
            /\ timer' = [timer EXCEPT ![i] = "cleared"]
            /\ outcome' = [outcome EXCEPT ![i] =
                    Return(ErrorPrefix \o
                           (IF e.t = "error" THEN e.message ELSE UnknownReasonText))]
            /\ UNCHANGED <<calls, message, issued>>
    /\ UNCHANGED <<view, inputs, pending, locals, aborted>>

\* fetch rejects: the transport failed
FetchReject(i, e) ==
    /\ pc[i] = "fetching"
    /\ Finish(i, Throw(e), timer[i])
    /\ UNCHANGED <<view, inputs, pending, locals, calls, aborted>>

\* response.text() resolves: the throw of lines 148-150
TextResolve(i, body) ==
    /\ pc[i] = "readingText"
    /\ errorBody' = [errorBody EXCEPT ![i] = Str(body)]
    /\ Finish(i, Throw(Err("Error",
                           HttpErrorMessage(response[i].status, body))),
              timer[i])
    /\ UNCHANGED <<view, inputs, pending, apiKey, timeoutMs, request, response, data,
                   calls, aborted>>

\* response.text() rejects: reading the error body failed
TextReject(i, e) ==
    /\ pc[i] = "readingText"
    /\ Finish(i, Throw(e), timer[i])
    /\ UNCHANGED <<view, inputs, pending, locals, calls, aborted>>

\* response.json() resolves with the parsed body: lines 153-158
JsonResolve(i, d) ==
    /\ pc[i] = "readingJson"
    /\ data' = [data EXCEPT ![i] = d]
    /\ Finish(i, ExtractContent(d), timer[i])
    /\ UNCHANGED <<view, inputs, pending, apiKey, timeoutMs, request, response,
                   errorBody, calls, aborted>>

\* response.json() rejects: the read failed or the body is not JSON
JsonReject(i, e) ==
    /\ pc[i] = "readingJson"
    /\ Finish(i, Throw(e), timer[i])
    /\ UNCHANGED <<view, inputs, pending, locals, calls, aborted>>

\* a timer callback that aborts nothing
TimerFireNoAbort(i) ==
    /\ timer[i] = "armed"
    /\ timer' = [timer EXCEPT ![i] = "fired"]
    /\ UNCHANGED <<view, inputs, pending, locals, calls, aborted, pc, error, outcome,
                   message, issued>>

\* one controller shared by all invocations (declared at module level): the
\* callback of i's timer aborts the signal of every call in flight
TimerFireShared(i) ==
    /\ timer[i] = "armed"
    /\ aborted' = [j \in Inv |-> aborted[j] \/ j = i \/ pc[j] \in Awaiting]
    /\ IF pc[i] \in Awaiting
       THEN Finish(i, Throw(AbortError), "fired")
       ELSE /\ timer' = [timer EXCEPT ![i] = "fired"]
            /\ UNCHANGED <<pc, error, outcome, message, issued>>
    /\ UNCHANGED <<view, inputs, pending, locals, calls>>

\* the timer callback of line 118 runs: controller.abort() rejects the pending
\* fetch or body read with an AbortError, and the relay resumes in its catch
TimerFire(i) ==
    /\ timer[i] = "armed"
    /\ aborted' = [aborted EXCEPT ![i] = TRUE]
    /\ IF pc[i] \in Awaiting
       THEN Finish(i, Throw(AbortError), "fired")
       ELSE /\ timer' = [timer EXCEPT ![i] = "fired"]
            /\ UNCHANGED <<pc, error, outcome, message, issued>>
    /\ UNCHANGED <<view, inputs, pending, locals, calls>>

Next ==
    \E i \in Inv :
        \/ SendMessage(i)
        \/ \E status \in Statuses : FetchResolve(i, status)
        \/ \E e \in TransportErrors : FetchReject(i, e)
        \/ \E body \in Texts : TextResolve(i, body)
        \/ \E e \in TransportErrors : TextReject(i, e)
        \/ \E d \in Payloads : JsonResolve(i, d)
        \/ \E e \in TransportErrors \cup {ParseError} : JsonReject(i, e)
        \/ TimerFire(i)

Spec == Init /\ [][Next]_vars

SpecPair == InitPair /\ [][Next]_vars

\* the event loop runs the callback of an armed timer unless it is cleared
\* first; nothing obliges the upstream to answer
FairSpec == Spec /\ \A i \in Inv : WF_vars(TimerFire(i))

\* ============================================================ the chat page
\* ChatInterface of src/app/page.tsx. The functions of a render close over
\* that render's messages, input and loading. React renders the state updates
\* made inside the handler of a discrete event (submit, keydown, change)
\* before it dispatches the next event, so an event handler reads the state
\* its predecessors left; updates made by promise callbacks are rendered
\* later, by Render. The GraphQL server is what settles a mutation.

FallbackText == <<"[zh: sorry, no AI reply for now; try again later or check the network connection]">>

\* the n-th identifier the page's crypto.randomUUID makes
ClientUUID(n) == <<"client">> \o Digits(n)

UserMessage(id, text) == [id |-> id, role |-> "user", content |-> text]

\* data?.sendMessage?.message of a settled mutation: undefined, or the
\* server's message, whose identifier differs from one mutation to the next
AiMessages ==
    {NoMessage,
     AssistantMessage(<<"server">> \o Digits(Len(sent)), <<"o", "k">>)}

\* the state updates a promise callback makes
SetLoading(value) == [op |-> "setResult", loading |-> value]
AppendMessage(m) == [op |-> "setMessages", item |-> m]

\* a submit guard that looks at the text only
AcceptsAnyTime(inputValue, loadingValue) == Trim(inputValue) # <<>>

\* the guard of line 88, negated: handleSubmit goes on when the trimmed
\* input is not empty and no mutation is loading
Accepts(inputValue, loadingValue) ==
    Trim(inputValue) # <<>> /\ ~loadingValue

\* onChange of the textarea, line 209
ChangeInput(text) ==
    /\ input' = text
    /\ lastStep' = "change"
    /\ UNCHANGED <<server, messages, loading, queued, inFlight, sent, minted>>

\* handleSubmit, lines 85-102 up to the await, called by the form's onSubmit
\* (line 200) or by Enter in the textarea (lines 210-215); useMutation's
\* function sets loading before it returns its promise
HandleSubmit ==
    IF ~Accepts(input, loading)
    THEN /\ lastStep' = "returned"
         /\ UNCHANGED <<server, messages, input, loading, queued, inFlight,
                        sent, minted>>
    ELSE /\ Len(sent) < MaxSent
         /\ messages' = Append(messages,
                               UserMessage(ClientUUID(minted + 1), Trim(input)))
         /\ minted' = minted + 1
         /\ input' = <<>>
         /\ loading' = TRUE
         /\ sent' = Append(sent, Trim(input))
         /\ inFlight' = inFlight + 1
         /\ lastStep' = "sent"
         /\ UNCHANGED <<server, queued>>

\* useMutation clears loading when the last mutation sent settles
Settled == IF inFlight = 1 THEN <<SetLoading(FALSE)>> ELSE <<>>

\* the mutation resolves: lines 102-107
MutationResolve(aiMessage) ==
    /\ inFlight > 0
    /\ inFlight' = inFlight - 1
    /\ queued' = queued \o Settled \o
                    (IF aiMessage # NoMessage
                     THEN <<AppendMessage(aiMessage)>> ELSE <<>>)
    /\ lastStep' = "resolved"
    /\ UNCHANGED <<server, messages, input, loading, sent, minted>>

\* the mutation rejects: the catch of lines 108-119
MutationReject ==
    /\ inFlight > 0
    /\ inFlight' = inFlight - 1
    /\ queued' = queued \o Settled \o
            <<AppendMessage(AssistantMessage(ClientUUID(minted + 1),
                                             FallbackText))>>
    /\ minted' = minted + 1
    /\ lastStep' = "rejected"
    /\ UNCHANGED <<server, messages, input, loading, sent>>

\* the state after the updates of a queue, applied in order
RECURSIVE ApplyUpdates(_, _)
ApplyUpdates(state, updates) ==
    IF updates = <<>> THEN state
    ELSE LET u == Head(updates)
         IN ApplyUpdates(
                IF u.op = "setResult"
                THEN [state EXCEPT !.loading = u.loading]
                ELSE [state EXCEPT !.messages = Append(@, u.item)],
                Tail(updates))

\* React renders the queued updates
Render ==
    /\ queued # <<>>
    /\ LET state == ApplyUpdates([messages |-> messages, loading |-> loading],
                                 queued)
       IN /\ messages' = state.messages
          /\ loading' = state.loading
    /\ queued' = <<>>
    /\ lastStep' = "rendered"
    /\ UNCHANGED <<server, input, inFlight, sent, minted>>

\* the page alone: no request is pending at the server
InitUI ==
    /\ procEnv = Undefined
    /\ pending = {}
    /\ env = [i \in Inv |-> Undefined]
    /\ userMessage = [i \in Inv |-> <<>>]
    /\ InitLocals
    /\ InitView

NextUI ==
    \/ \E text \in Texts : ChangeInput(text)
    \/ HandleSubmit
    \/ \E aiMessage \in AiMessages : MutationResolve(aiMessage)
    \/ MutationReject
    \/ Render

SpecUI == InitUI /\ [][NextUI]_vars

\* ================================================================= claims
ApiKeyName == "DEEPSEEK_API_KEY"

Done(i) == pc[i] = "done"
Returned(i) == outcome[i].kind = "return"

\* the response of invocation i has arrived with a non-2xx status
Rejected(i) ==
    response[i] # Undefined /\ ~(response[i].status \in OkLow..OkHigh)

\* C1: every invocation of the relay that has ended has ended by returning a
\* string (and so sendMessage has a message to return); none has ended by
\* throwing.
C1_AlwaysReturnsText ==
    \A i \in Inv :
        /\ outcome[i].kind \in {"none", "return"}
        /\ Done(i) => /\ Returned(i)
                      /\ outcome[i].val \in Seq(STRING)
                      /\ message[i] # NoMessage

\* the relay returned text although a read of undefined properties threw
\* inside it
C1_Witness ==
    \E i \in Inv :
        /\ Done(i) /\ Returned(i)
        /\ data[i] = Null
        /\ error[i].t = "error" /\ error[i].name = "TypeError"

C3_TimerPairedAndCleared ==
    \A i \in Inv :
        /\ pc[i] \in Awaiting => (timer[i] = "armed" /\ ~aborted[i])
        /\ (timer[i] = "none") <=> (calls[i] = 0)
        /\ Done(i) => timer[i] \in {"none", "cleared"}

\* an invocation ended on the HTTP-error path with its timer cleared
C3_Witness ==
    \E i \in Inv :
        /\ Done(i) /\ Rejected(i) /\ errorBody[i] # Undefined
        /\ timer[i] = "cleared" /\ ~aborted[i]

\* C4: when the timer has fired on the pending call, the relay has returned
\* the timeout text with floor(timeoutMs / 1000) in it, and the signal is
\* aborted.
C4_TimeoutDiagnostic ==
    \A i \in Inv :
        (Done(i) /\ timer[i] # "none" /\ (aborted[i] \/ error[i] = AbortError))
        => /\ aborted[i]
           /\ timeoutMs[i].k = "fin" /\ timeoutMs[i].num > 0
           /\ outcome[i] =
                Return(TimeoutPrefix
                       \o Digits(timeoutMs[i].num \div (timeoutMs[i].den * 1000))
                       \o TimeoutSuffix)

\* the timer of a 1500 ms timeout fired while fetch was pending
C4_Witness ==
    \E i \in Inv :
        /\ Done(i) /\ aborted[i] /\ response[i] = Undefined
        /\ timeoutMs[i] = Finite(1500, 1)
        /\ outcome[i] = Return(TimeoutPrefix \o <<"1">> \o TimeoutSuffix)

\* choices[0].message.content of a parsed body that has all three
HasContent(d) ==
    /\ d.t = "obj" /\ d.f.choices.t = "arr" /\ Len(d.f.choices.items) > 0
    /\ d.f.choices.items[1].t = "obj"
    /\ d.f.choices.items[1].f.message.t = "obj"
    /\ d.f.choices.items[1].f.message.f.content.t = "str"
ContentOf(d) == d.f.choices.items[1].f.message.f.content.s

Blank(s) == \A j \in 1..Len(s) : s[j] \in Whitespace

\* t is s without its leading and trailing white space
IsTrimOf(t, s) ==
    \E a \in 0..Len(s) :
        /\ a + Len(t) <= Len(s)
        /\ SubSeq(s, a + 1, a + Len(t)) = t
        /\ \A j \in 1..a : s[j] \in Whitespace
        /\ \A j \in (a + Len(t) + 1)..Len(s) : s[j] \in Whitespace
        /\ t # <<>> => (t[1] \notin Whitespace /\ t[Len(t)] \notin Whitespace)

C6_BlankContentGivesNoContentText ==
    \A i \in Inv :
        (Done(i) /\ data[i] # Undefined /\ HasContent(data[i])
            /\ Blank(ContentOf(data[i])))
        => outcome[i] = Return(NoContentText)

\* C7: on a parsed 2xx body in which choices is empty, or choices[0] has no
\* message, or the message has no content, the relay returns the no-content
\* text, having caught nothing.
LacksContent(d) ==
    /\ d.t = "obj" /\ d.f.choices.t = "arr"
    /\ \/ Len(d.f.choices.items) = 0
       \/ /\ d.f.choices.items[1].t = "obj"
          /\ \/ d.f.choices.items[1].f.message = Undefined
             \/ /\ d.f.choices.items[1].f.message.t = "obj"
                /\ d.f.choices.items[1].f.message.f.content = Undefined

C7_MissingContentGivesNoContentText ==
    \A i \in Inv :
        (Done(i) /\ data[i] # Undefined /\ LacksContent(data[i]))
        => /\ outcome[i] = Return(NoContentText)
           /\ error[i] = NoError
           /\ message[i] # NoMessage /\ message[i].content = NoContentText

\* a 2xx body with an empty choices array was parsed
C7_Witness ==
    \E i \in Inv :
        /\ Done(i) /\ data[i] = Data(Arr(<<>>))
        /\ outcome[i] = Return(NoContentText)

\* C8: on a parsed 2xx body whose choices[0].message.content is a non-blank
\* string, the reply is that string without its surrounding white space, and
\* sendMessage's message has role assistant, that reply as content and a
\* non-empty generated id.
C8_ReplyIsTrimmedContent ==
    \A i \in Inv :
        (Done(i) /\ data[i] # Undefined /\ HasContent(data[i])
            /\ ~Blank(ContentOf(data[i])))
        => /\ Returned(i)
           /\ outcome[i].val # <<>>
           /\ IsTrimOf(outcome[i].val, ContentOf(data[i]))
           /\ message[i] # NoMessage
           /\ message[i].role = "assistant"
           /\ message[i].content = outcome[i].val
           /\ message[i].id # <<>> /\ message[i].id \in issued

\* a content with white space on one side, in a body of two choices
C8_Witness ==
    \E i \in Inv :
        /\ Done(i)
        /\ data[i] = Data(Arr(<<Choice(Message(Str(<<"a">>))),
                                Choice(Message(Str(<<"z">>)))>>))
        /\ message[i] # NoMessage /\ message[i].content = <<"a">>

\* C9: an invocation issues at most one fetch; one that has ended with the
\* key present has issued exactly one.
C9_NoRetry ==
    \A i \in Inv :
        /\ calls[i] <= 1
        /\ (Done(i) /\ ~KeyMissing(apiKey[i])) => calls[i] = 1

\* a transport failure ended the invocation after its single fetch
C9_Witness ==
    \E i \in Inv :
        /\ Done(i) /\ response[i] = Undefined /\ error[i] \in TransportErrors
        /\ calls[i] = 1

\* C10: for every key, a non-blank request-scoped value is what readEnvValue
\* returns, whatever the process environment holds; the relay's apiKey is
\* that value.
C10_RequestScopeFirst ==
    \A i \in Inv : \A k \in Keys :
        (env[i] # Undefined /\ env[i].f[k].t = "str"
            /\ ~Blank(env[i].f[k].s))
        => /\ readEnvValue(k, env[i], procEnv) = env[i].f[k]
           /\ (k = ApiKeyName /\ pc[i] # "idle") => apiKey[i] = env[i].f[k]

\* the relay ran with a key in the request scope and another in the process
\* environment
C10_Witness ==
    \E i \in Inv :
        /\ pc[i] # "idle"
        /\ env[i] # Undefined /\ procEnv # Undefined
        /\ env[i].f[ApiKeyName] = Str(<<" ", "k">>)
        /\ procEnv.f[ApiKeyName] = Str(<<"k">>)
        /\ apiKey[i] = Str(<<" ", "k">>)

\* scope holds a value under k that is not blank
HoldsNonBlank(scope, k) ==
    scope # Undefined /\ scope.f[k].t = "str" /\ ~Blank(scope.f[k].s)

\* C11: for every key whose request-scoped value is blank or absent (or with
\* no request scope), readEnvValue returns the process-wide value when that
\* is present and not blank and undefined otherwise; what it returns is never
\* blank; the relay's apiKey is that result.
C11_FallsThroughToProcess ==
    \A i \in Inv : \A k \in Keys :
        LET got == readEnvValue(k, env[i], procEnv)
        IN /\ ~HoldsNonBlank(env[i], k)
              => /\ got = (IF HoldsNonBlank(procEnv, k) THEN procEnv.f[k]
                           ELSE Undefined)
                 /\ (k = ApiKeyName /\ pc[i] # "idle") => apiKey[i] = got
           /\ got = Undefined \/ (got.t = "str" /\ ~Blank(got.s))

\* the relay ran with a blank key in the request scope and a key in the
\* process environment
C11_Witness ==
    \E i \in Inv :
        /\ pc[i] # "idle"
        /\ env[i] # Undefined /\ procEnv # Undefined
        /\ env[i].f[ApiKeyName] = Str(<<" ">>)
        /\ procEnv.f[ApiKeyName] = Str(<<" ", "k">>)
        /\ apiKey[i] = Str(<<" ", "k">>)

\* invocations i and j were given the same message and settings
SameInputs(i, j) == env[i] = env[j] /\ userMessage[i] = userMessage[j]

\* the upstream did the same to the calls of i and j: the same response,
\* body and failure
SameUpstream(i, j) ==
    /\ response[i] = response[j]
    /\ errorBody[i] = errorBody[j]
    /\ data[i] = data[j]
    /\ error[i] = error[j]

\* C12: two ended invocations with the same message and settings, whose
\* upstream calls went the same way, have messages of equal content and
\* different ids, in whatever order or overlap they ran.
C12_EqualContentDistinctIds ==
    \A i \in Inv : \A j \in Inv \ {i} :
        (Done(i) /\ Done(j) /\ SameInputs(i, j) /\ SameUpstream(i, j))
        => /\ message[i] # NoMessage /\ message[j] # NoMessage
           /\ message[i].content = message[j].content
           /\ message[i].id # message[j].id

\* both invocations got the same 200 response with a reply in it
C12_Witness ==
    /\ Done(1) /\ Done(2) /\ SameInputs(1, 2)
    /\ data[1] = Data(Arr(<<Choice(Message(Str(<<"a", " ">>)))>>))
    /\ data[2] = data[1]
    /\ message[1].content = <<"a">> /\ message[2].content = <<"a">>
    /\ message[1].id # message[2].id

\* C13 as stated: every ChatMessage sendMessage has returned has role
\* assistant and a content that is not the empty text.
C13_MessageContentNonEmpty ==
    \A i \in Inv :
        message[i] # NoMessage
        => /\ message[i].role = "assistant"
           /\ message[i].content # <<>>

\* the relay of invocation i returned the timeout text
TimedOutText(i) ==
    Returned(i) /\ outcome[i].val # <<>> /\ outcome[i].val[1] = TimeoutPrefix[1]

\* the body of i's response has been read to its end
BodyRead(i) == errorBody[i] # Undefined \/ data[i] # Undefined

\* C14 as stated: once the response has arrived (its status is known), the
\* result is never the timeout text.
C14_Original_NoTimeoutAfterResponse ==
    \A i \in Inv :
        (Done(i) /\ response[i] # Undefined) => ~TimedOutText(i)

\* C14 amended: once the response body has been read to its end the result is
\* never the timeout text and the signal is not aborted; a timer that fires
\* after the status is known but while the body is still being read gives the
\* timeout text.
C14_NoTimeoutAfterBodyRead ==
    \A i \in Inv :
        /\ (Done(i) /\ BodyRead(i)) => (~TimedOutText(i) /\ ~aborted[i])
        /\ (Done(i) /\ response[i] # Undefined /\ aborted[i])
           => (TimedOutText(i) /\ ~BodyRead(i))

\* the timer fired while the body of a 200 response was being read
C14_Witness ==
    \E i \in Inv :
        /\ Done(i) /\ response[i] # Undefined /\ response[i].status = 200
        /\ aborted[i] /\ data[i] = Undefined
        /\ TimedOutText(i)

\* supporting fact for C13: the empty content of a message comes from a blank
\* choices[0].message.content only
EmptyContentOnlyFromBlank ==
    \A i \in Inv :
        (message[i] # NoMessage /\ message[i].content = <<>>)
        => (data[i] # Undefined /\ HasContent(data[i])
            /\ Blank(ContentOf(data[i])))

\* C15: an invocation that issued its call has returned the timeout text
\* exactly when its own signal was aborted, which is exactly when it caught
\* the AbortError; any other caught value gives the error-message text (the
\* message of an Error object, the unknown-reason text for any other value)
\* and never the timeout text.
C15_TimeoutIffOwnAbort ==
    \A i \in Inv :
        (Done(i) /\ timer[i] # "none")
        => /\ TimedOutText(i) <=> aborted[i]
           /\ aborted[i] <=> error[i] = AbortError
           /\ error[i] \notin {NoError, AbortError}
              => /\ outcome[i] =
                      Return(ErrorPrefix \o
                             (IF error[i].t = "error" THEN error[i].message
                              ELSE UnknownReasonText))
                 /\ ~TimedOutText(i)

\* a value that is no Error object was thrown by the body read of a response
\* that had arrived, and the unknown-reason text came back
C15_Witness ==
    \E i \in Inv :
        /\ Done(i) /\ response[i] # Undefined /\ ~aborted[i]
        /\ error[i] = Str(<<"reset">>)
        /\ outcome[i] = Return(ErrorPrefix \o UnknownReasonText)

\* the steps of the per-call state machine
ForwardSteps ==
    {<<"idle", "done">>, <<"idle", "fetching">>,
     <<"fetching", "readingText">>, <<"fetching", "readingJson">>,
     <<"fetching", "done">>, <<"readingText", "done">>,
     <<"readingJson", "done">>}

\* C16: an invocation that has started eventually ends, even if the upstream
\* never answers; each of its steps is a step of the state machine, none goes
\* back and none leaves the terminal state; with the key missing in both
\* scopes the first step is the last.
C16_TerminatesForward ==
    /\ \A i \in Inv : (pc[i] # "idle") ~> Done(i)
    /\ [][\A i \in Inv :
            /\ pc'[i] # pc[i] => <<pc[i], pc'[i]>> \in ForwardSteps
            /\ (pc[i] = "idle" /\ pc'[i] # "idle"
                  /\ ~HoldsNonBlank(env[i], ApiKeyName)
                  /\ ~HoldsNonBlank(procEnv, ApiKeyName))
               => pc'[i] = "done"]_vars

\* the upstream never answered and the default timeout ended the invocation
C16_Witness ==
    \E i \in Inv :
        /\ Done(i) /\ calls[i] = 1 /\ response[i] = Undefined
        /\ error[i] = AbortError
        /\ timeoutMs[i] = Finite(DefaultTimeoutMs, 1)
        /\ timer[i] = "cleared"

\* all that invocation i owns
Own(i) ==
    <<pc[i], apiKey[i], timeoutMs[i], request[i], calls[i], timer[i],
      aborted[i], response[i], errorBody[i], data[i], error[i], outcome[i],
      message[i]>>

\* C17: with two invocations in any interleaving, a step of one (the firing
\* or clearing of its timer included) changes nothing the other owns; a call
\* in flight has its own timer armed and its own signal not aborted; a signal
\* is aborted only in an invocation that caught its own AbortError; and two
\* invocations with the same settings and the same upstream outcome end with
\* the same result.
C17_InvocationsIndependent ==
    /\ [][\A i \in Inv : \A j \in Inv \ {i} :
            Own(i)' # Own(i) => Own(j)' = Own(j)]_vars
    /\ [](\A i \in Inv :
            /\ pc[i] \in Awaiting => (timer[i] = "armed" /\ ~aborted[i])
            /\ aborted[i] => (Done(i) /\ error[i] = AbortError)
            /\ \A j \in Inv \ {i} :
                 (Done(i) /\ Done(j) /\ env[i] = env[j] /\ SameUpstream(i, j))
                 => outcome[i] = outcome[j])

\* one invocation has timed out while the call of the other, with another
\* message, is still in flight and not aborted
C17_Witness ==
    \E i \in Inv : \E j \in Inv \ {i} :
        /\ Done(i) /\ aborted[i] /\ timer[i] = "cleared"
        /\ pc[j] = "readingJson" /\ timer[j] = "armed" /\ ~aborted[j]
        /\ userMessage[i] # userMessage[j]

TimeoutName == "DEEPSEEK_TIMEOUT_MS"

\* the timeout setting invocation i resolves: the first non-blank of the
\* request scope and the process environment
TimeoutSettingOf(i) ==
    IF HoldsNonBlank(env[i], TimeoutName) THEN env[i].f[TimeoutName]
    ELSE IF HoldsNonBlank(procEnv, TimeoutName) THEN procEnv.f[TimeoutName]
    ELSE Undefined

\* the number of milliseconds each setting stands for, 25000 for those that
\* are absent, not a number, infinite, zero or negative
ExpectedTimeoutMs(setting) ==
    CASE setting = Str(<<"1", "5", "0", "0">>) -> Finite(1500, 1)
      [] setting = Str(<<" ", "2", "0", "0", "0">>) -> Finite(2000, 1)
      [] setting = Str(<<"0", ".", "5">>) -> Finite(5, 10)
      [] setting \in {Undefined, Str(<<"x">>), Str(<<"0">>), Str(<<"-", "5">>),
                      Str(InfinityText)} -> Finite(25000, 1)

\* C18: the timeout a timer was armed with is a finite number above 0: the
\* setting's value when that is a finite positive number, 25000 otherwise.
C18_EffectiveTimeout ==
    \A i \in Inv :
        timer[i] # "none"
        => /\ timeoutMs[i].k = "fin"
           /\ timeoutMs[i].num > 0 /\ timeoutMs[i].den > 0
           /\ timeoutMs[i] = ExpectedTimeoutMs(TimeoutSettingOf(i))

\* a timer armed under a negative setting, with the default
C18_Witness ==
    \E i \in Inv :
        /\ pc[i] = "fetching" /\ timer[i] = "armed"
        /\ TimeoutSettingOf(i) = Str(<<"-", "5">>)
        /\ timeoutMs[i] = Finite(25000, 1)

====
